---- MODULE Spec2Model ----
(***************************************************************************)
(* A model of the slideshow builder: the image ordering of                 *)
(* smartSortImages, the concat descriptor of createConcatListFile, the     *)
(* pipeline of createSlideshowWithTTS and the two HTTP handlers that call  *)
(* it (src/src/createSlideshow.ts, src/src/server.ts).                     *)
(*                                                                         *)
(* File names and paths are TLA+ strings; a character is a string of       *)
(* length one.  Times are exact rationals <<numerator, denominator>>.      *)
(***************************************************************************)
EXTENDS Integers, Sequences, FiniteSets, TLC

VARIABLES
    sortPc,      \* position of the caller of smartSortImages (SpecSort)
    sortIn,      \* the paths handed to smartSortImages
    sortOrder,   \* items after items.sort: the input position of each item
    sortOut,     \* what smartSortImages returned for sortIn
    sortAgain,   \* what smartSortImages returned for sortOut
    retPc,       \* position of the caller of retimeAudio (SpecRetime)
    retSpeed,    \* the speed handed to retimeAudio
    filters,     \* the atempo values of the filter chain it built
    wsPhase,     \* position of each of the concurrent requests (SpecWork)
    wsSrvDir,    \* the handler's work directory of each request, "" while none
    wsPipeDir,   \* the pipeline's work directory of each request, "" while none
    upPc,        \* position of the upload handler's persist block (SpecUpload)
    upFiles,     \* files["images"] of the upload: originalname and mimetype
    upBgmFile,   \* files["bgm"]?.[0], NoFile when the client sent none
    upImages,    \* the handler's localImages of that block
    upBgm,       \* its localBgm, "" while undefined
    upDisk,      \* the files of its work directory: path and what it holds
    req,         \* the request: who calls, the images, text, speechRate, music
    srvPc,       \* position of the HTTP handler
    status,      \* HTTP status sent, 0 while none is
    srvWork,     \* the handler's work directory: "none", "present", "removed"
    localImages, \* the handler's localImages / the images argument
    aborted,     \* the client has closed the connection of its request
    pc,          \* position of createSlideshowWithTTS
    work,        \* its work directory: "none", "present", "removed",
                 \* "removal failed"
    calls,       \* the external calls it has issued, in order
    audio,       \* durations of the audio artifacts and the final audio path
    orderedImages,
    tasks,       \* the resize tasks: "running", "done", "failed"
    resizedImages,
    durationPerSlide,
    lines,       \* the concat list written to list.txt
    output,      \* the encoder's result: video and output durations
    error        \* the error thrown, "" while none is

sortVars == <<sortPc, sortIn, sortOrder, sortOut, sortAgain>>

retVars == <<retPc, retSpeed, filters>>

wsVars == <<wsPhase, wsSrvDir, wsPipeDir>>

upVars == <<upPc, upFiles, upBgmFile, upImages, upBgm, upDisk>>

fnVars == <<sortVars, retVars, wsVars, upVars>>

srvVars == <<req, srvPc, status, srvWork, localImages, aborted>>

pipeVars ==
    <<pc, work, calls, audio, orderedImages, tasks, resizedImages,
      durationPerSlide, lines, output, error>>

vars == <<fnVars, srvVars, pipeVars>>

\* ------------------------------------------------------------------------
\* Bounds
\* ------------------------------------------------------------------------

\* longest basename handed to smartSortImages under SpecToken
MaxNameLen == 6

\* number of requests handled at the same time under SpecWork
MaxRequests == 2

\* longest list of paths handed to smartSortImages under SpecSort
MaxPaths == 3

\* most images in one request under Spec
MaxImages == 3

\* ------------------------------------------------------------------------
\* Strings
\* ------------------------------------------------------------------------

Ch(s, i) == SubSeq(s, i, i)

Digits == "0123456789"

Lower == "abcdefghijklmnopqrstuvwxyz"

Upper == "ABCDEFGHIJKLMNOPQRSTUVWXYZ"

\* Punctuation of the model's alphabet, in the collation order of the CLDR
\* root table (white space, then _ - , ; : ! ? . ' and later / ).
Punct == " _-,;:!?.'/"

CharsOf(s) == {Ch(s, i) : i \in 1..Len(s)}

\* the position of each character of s in s, as a table
PositionIn(s) == [c \in CharsOf(s) |-> CHOOSE i \in 1..Len(s) : Ch(s, i) = c]

DigitSet == CharsOf(Digits)

DigitPos == PositionIn(Digits)

PunctSet == CharsOf(Punct)

PunctPos == PositionIn(Punct)

LowerSet == CharsOf(Lower)

LowerPos == PositionIn(Lower)

UpperPos == PositionIn(Upper)

IsDigit(c) == c \in DigitSet

DigitVal(c) == DigitPos[c] - 1

\* parseInt(s, 10) of a non-empty digit string
RECURSIVE parseInt(_)
parseInt(s) ==
    IF Len(s) = 0 THEN 0
    ELSE 10 * parseInt(SubSeq(s, 1, Len(s) - 1)) + DigitVal(Ch(s, Len(s)))

\* length of the maximal digit run of s that starts at position i
RECURSIVE RunLen(_, _)
RunLen(s, i) ==
    IF i > Len(s) \/ ~IsDigit(Ch(s, i)) THEN 0 ELSE 1 + RunLen(s, i + 1)

\* path.basename: what follows the last "/"
basename(p) ==
    IF \E i \in 1..Len(p) : Ch(p, i) = "/"
    THEN LET k == CHOOSE i \in 1..Len(p) :
                     /\ Ch(p, i) = "/"
                     /\ \A j \in (i + 1)..Len(p) : Ch(p, j) # "/"
         IN  SubSeq(p, k + 1, Len(p))
    ELSE p

Sign(n) == IF n < 0 THEN -1 ELSE IF n > 0 THEN 1 ELSE 0

\* ------------------------------------------------------------------------
\* Intl.Collator(locale, {numeric: true, sensitivity: "base"})
\* ------------------------------------------------------------------------

\* Primary class of a character: punctuation < digits < letters.
CharClass(c) == IF c \in PunctSet THEN 0 ELSE IF IsDigit(c) THEN 1 ELSE 2

\* Primary weight inside the class; sensitivity "base" folds case.
CharRank(c) ==
    IF c \in PunctSet THEN PunctPos[c]
    ELSE IF c \in LowerSet THEN LowerPos[c]
    ELSE IF IsDigit(c) THEN DigitVal(c)
    ELSE UpperPos[c]

\* collator.compare(a, b) from positions i and j on: digit runs compare by
\* their numeric value (numeric: true), other characters by primary weight.
RECURSIVE CollateFrom(_, _, _, _)
CollateFrom(a, i, b, j) ==
    IF i > Len(a) /\ j > Len(b) THEN 0
    ELSE IF i > Len(a) THEN -1
    ELSE IF j > Len(b) THEN 1
    ELSE LET ca == Ch(a, i)
             cb == Ch(b, j)
         IN  IF IsDigit(ca) /\ IsDigit(cb)
             THEN LET la == RunLen(a, i)
                      lb == RunLen(b, j)
                      va == parseInt(SubSeq(a, i, i + la - 1))
                      vb == parseInt(SubSeq(b, j, j + lb - 1))
                  IN  IF va # vb THEN Sign(va - vb)
                      ELSE CollateFrom(a, i + la, b, j + lb)
             ELSE IF CharClass(ca) # CharClass(cb)
                  THEN Sign(CharClass(ca) - CharClass(cb))
             ELSE IF CharRank(ca) # CharRank(cb)
                  THEN Sign(CharRank(ca) - CharRank(cb))
             ELSE CollateFrom(a, i + 1, b, j + 1)

collatorCompare(a, b) == CollateFrom(a, 1, b, 1)

\* ------------------------------------------------------------------------
\* smartSortImages
\* ------------------------------------------------------------------------

\* base.match(/^(\d{2,})-/): a leading run of two or more digits and a "-"
HasPrefix(base) ==
    /\ RunLen(base, 1) >= 2
    /\ RunLen(base, 1) < Len(base)
    /\ Ch(base, RunLen(base, 1) + 1) = "-"

\* parseInt(mPrefix[1], 10); read only where HasPrefix holds, the code's
\* Number.POSITIVE_INFINITY is the absence of a prefix
PrefixIdx(base) == parseInt(SubSeq(base, 1, RunLen(base, 1)))

\* base.replace(/^\d{2,}-/, "")
NameNoPrefix(base) ==
    IF HasPrefix(base)
    THEN SubSeq(base, RunLen(base, 1) + 2, Len(base))
    ELSE base

\* The starts of the matches of /\d+/g: the maximal digit runs
RunStarts(s) ==
    {i \in 1..Len(s) :
        /\ IsDigit(Ch(s, i))
        /\ (i = 1 \/ ~IsDigit(Ch(s, i - 1)))}

HasNum(name) == RunStarts(name) # {}

BestPosLeftmost(name) ==
    CHOOSE i \in RunStarts(name) :
        \A j \in RunStarts(name) :
            \/ RunLen(name, j) < RunLen(name, i)
            \/ (RunLen(name, j) = RunLen(name, i) /\ j >= i)

\* The loop over matchAll: a later match replaces the best one when it is
\* longer, or as long and further right.
BestPos(name) ==
    CHOOSE i \in RunStarts(name) :
        \A j \in RunStarts(name) :
            \/ RunLen(name, j) < RunLen(name, i)
            \/ (RunLen(name, j) = RunLen(name, i) /\ j <= i)

BestNum(name) ==
    parseInt(SubSeq(name, BestPos(name), BestPos(name) + RunLen(name, BestPos(name)) - 1))

\* One element of items: the sortable fields of paths[idx]
MakeItem(p, idx) ==
    LET base == basename(p)
        name == NameNoPrefix(base)
    IN  [p            |-> p,
         idx          |-> idx,
         base         |-> base,
         hasPrefix    |-> HasPrefix(base),
         prefixIdx    |-> IF HasPrefix(base) THEN PrefixIdx(base) ELSE 0,
         nameNoPrefix |-> name,
         hasNum       |-> HasNum(name),
         num          |-> IF HasNum(name) THEN BestNum(name) ELSE 0]

\* items whose last tie-break is reversed (b.idx - a.idx)
MakeItemsReversed(paths) ==
    [i \in 1..Len(paths) |-> [MakeItem(paths[i], i) EXCEPT !.idx = -i]]

\* items that do not record their input position
MakeItemsNoIdx(paths) ==
    [i \in 1..Len(paths) |-> [MakeItem(paths[i], i) EXCEPT !.idx = 0]]

MakeItems(paths) == [i \in 1..Len(paths) |-> MakeItem(paths[i], i)]

\* numeric mode only when every item has a token
NumericModeEvery(items) == \A i \in 1..Len(items) : items[i].hasNum

\* withNums.length > 0
NumericMode(items) == \E i \in 1..Len(items) : items[i].hasNum

\* a.prefixIdx !== b.prefixIdx
PrefixDiffers(a, b) ==
    \/ a.hasPrefix # b.hasPrefix
    \/ (a.hasPrefix /\ b.hasPrefix /\ a.prefixIdx # b.prefixIdx)

\* an absent prefix taken as -Infinity
PrefixDiffAbsentFirst(a, b) ==
    IF a.hasPrefix /\ b.hasPrefix THEN Sign(a.prefixIdx - b.prefixIdx)
    ELSE IF a.hasPrefix THEN 1
    ELSE -1

\* the sign of a.prefixIdx - b.prefixIdx, where an absent prefix is +Infinity
PrefixDiff(a, b) ==
    IF a.hasPrefix /\ b.hasPrefix THEN Sign(a.prefixIdx - b.prefixIdx)
    ELSE IF a.hasPrefix THEN -1
    ELSE 1

\* The comparator given to items.sort, by its sign
compareItems(a, b, numericMode) ==
    IF numericMode
    THEN IF a.hasNum /\ b.hasNum
         THEN IF a.num # b.num THEN Sign(a.num - b.num)
              ELSE IF collatorCompare(a.nameNoPrefix, b.nameNoPrefix) # 0
                   THEN collatorCompare(a.nameNoPrefix, b.nameNoPrefix)
              ELSE IF PrefixDiffers(a, b) THEN PrefixDiff(a, b)
              ELSE Sign(a.idx - b.idx)
         ELSE IF a.hasNum THEN -1
         ELSE IF b.hasNum THEN 1
         ELSE IF PrefixDiffers(a, b) THEN PrefixDiff(a, b)
         ELSE Sign(a.idx - b.idx)
    ELSE IF PrefixDiffers(a, b) THEN PrefixDiff(a, b)
         ELSE IF collatorCompare(a.base, b.base) # 0
              THEN collatorCompare(a.base, b.base)
         ELSE Sign(a.idx - b.idx)

\* Array.prototype.sort with that comparator: each element goes before the
\* first one it compares less than (an insertion sort, stable as the
\* language requires).
RECURSIVE InsertItem(_, _, _)
InsertItem(x, s, numericMode) ==
    IF s = <<>> THEN <<x>>
    ELSE IF compareItems(x, Head(s), numericMode) < 0 THEN <<x>> \o s
    ELSE <<Head(s)>> \o InsertItem(x, Tail(s), numericMode)

RECURSIVE SortItems(_, _)
SortItems(items, numericMode) ==
    IF items = <<>> THEN <<>>
    ELSE InsertItem(items[Len(items)],
                    SortItems(SubSeq(items, 1, Len(items) - 1), numericMode),
                    numericMode)

\* items after items.sort(...)
sortedItems(paths) ==
    LET items == MakeItems(paths)
    IN  SortItems(items, NumericMode(items))

\* items.map((x) => x.p)
smartSortImages(paths) ==
    LET sorted == sortedItems(paths)
    IN  [i \in 1..Len(sorted) |-> sorted[i].p]

\* ------------------------------------------------------------------------
\* server.ts: the names under which a request's images are stored
\* ------------------------------------------------------------------------

\* String(n) of a natural number
RECURSIVE ToStr(_)
ToStr(n) ==
    IF n < 10 THEN Ch(Digits, n + 1)
    ELSE ToStr(n \div 10) \o Ch(Digits, (n % 10) + 1)

\* s.padStart(width, "0")
RECURSIVE padStart(_, _)
padStart(s, width) == IF Len(s) >= width THEN s ELSE padStart("0" \o s, width)

zeroPad(n) == padStart(ToStr(n), 4)

\* \w of a regular expression, with "." and "-": what safeBaseName keeps
IsSafeChar(c) ==
    \/ c \in LowerSet
    \/ c \in CharsOf(Upper)
    \/ c \in DigitSet
    \/ c \in {"_", ".", "-"}

RECURSIVE ReplaceUnsafe(_)
ReplaceUnsafe(s) ==
    IF Len(s) = 0 THEN ""
    ELSE (IF IsSafeChar(Ch(s, 1)) THEN Ch(s, 1) ELSE "_") \o ReplaceUnsafe(Tail(s))

safeBaseName(name) == ReplaceUnsafe(basename(name))

\* the last "." of s, 0 when there is none
LastDot(s) ==
    IF \E i \in 1..Len(s) : Ch(s, i) = "."
    THEN CHOOSE i \in 1..Len(s) :
             /\ Ch(s, i) = "."
             /\ \A j \in (i + 1)..Len(s) : Ch(s, j) # "."
    ELSE 0

\* path.extname: from the last "." of the basename on, "" when there is none
\* or when it is the basename's first character
extname(p) ==
    LET b == basename(p)
    IN  IF LastDot(b) <= 1 THEN "" ELSE SubSeq(b, LastDot(b), Len(b))

\* s.replace(/\.[^.]*$/, "")
StripExt(s) == IF LastDot(s) = 0 THEN s ELSE SubSeq(s, 1, LastDot(s) - 1)

extFromContentType(ct) ==
    CASE ct \in {"image/jpeg", "image/jpg"} -> ".jpg"
      [] ct = "image/png" -> ".png"
      [] ct = "image/webp" -> ".webp"
      [] ct = "image/gif" -> ".gif"
      [] ct = "audio/mpeg" -> ".mp3"
      [] ct \in {"audio/mp4", "audio/aac"} -> ".m4a"
      [] ct = "audio/wav" -> ".wav"
      [] ct = "audio/ogg" -> ".ogg"
      [] OTHER -> ""

\* a || b on strings
OrElse(a, b) == IF a # "" THEN a ELSE b

\* POST /v1/slideshow/upload: the file name given to the i-th uploaded image
\* (i from 0), f = [name |-> originalname, type |-> mimetype]
uploadFileName(f, i) ==
    LET rawBase == IF f.name # "" THEN f.name ELSE "image-" \o ToStr(i)
        base    == StripExt(safeBaseName(rawBase))
        ext     == OrElse(extname(rawBase), extFromContentType(f.type))
    IN  zeroPad(i) \o "-" \o base \o ext

\* downloadToTemp: the file name given to the image of the i-th URL (i from
\* 0), f = [name |-> the URL's pathname, type |-> the response's content type]
downloadFileName(f, i) ==
    LET urlBase == safeBaseName(basename(f.name))
        ext     == OrElse(extname(urlBase), extFromContentType(f.type))
        base    == IF urlBase # "" THEN StripExt(urlBase) ELSE "image-" \o ToStr(i)
    IN  zeroPad(i) \o "-" \o base \o ext

\* path.join(dir, name)
pathJoin(dir, name) == dir \o "/" \o name

RECURSIVE ListsUpTo(_, _)
ListsUpTo(S, n) ==
    IF n = 0 THEN {<<>>}
    ELSE LET shorter == ListsUpTo(S, n - 1)
         IN  shorter \cup {Append(l, x) : l \in {m \in shorter : Len(m) = n - 1}, x \in S}

\* ------------------------------------------------------------------------
\* Times: exact rationals <<numerator, denominator>>, denominator > 0
\* ------------------------------------------------------------------------

RECURSIVE Gcd(_, _)
Gcd(a, b) == IF b = 0 THEN a ELSE Gcd(b, a % b)

Abs(n) == IF n < 0 THEN -n ELSE n

\* the same number in lowest terms
Norm(a) ==
    LET g == Gcd(Abs(a[1]), a[2])
    IN  <<a[1] \div g, a[2] \div g>>

RatLess(a, b) == a[1] * b[2] < b[1] * a[2]

RatEq(a, b) == a[1] * b[2] = b[1] * a[2]

RatLeq(a, b) == a[1] * b[2] <= b[1] * a[2]

RatAdd(a, b) == Norm(<<a[1] * b[2] + b[1] * a[2], a[2] * b[2]>>)

RatSub(a, b) == Norm(<<a[1] * b[2] - b[1] * a[2], a[2] * b[2]>>)

RatTimes(k, a) == Norm(<<k * a[1], a[2]>>)

RatMul(a, b) == Norm(<<a[1] * b[1], a[2] * b[2]>>)

\* a / b for b > 0
RatDiv(a, b) == Norm(<<a[1] * b[2], a[2] * b[1]>>)

RatFirst(a, b) == a

RatMax(a, b) == IF RatLess(a, b) THEN b ELSE a

RatMin(a, b) == IF RatLess(a, b) THEN a ELSE b

Zero == <<0, 1>>

\* ------------------------------------------------------------------------
\* The request and the state before it is handled
\* ------------------------------------------------------------------------

Finite(n, d) == [kind |-> "finite", v |-> <<n, d>>]

\* Number(speechRate): any number of the language
SpeechRates ==
    {Finite(1, 1), Finite(2, 1), Finite(0, 1), Finite(-1, 1),
     [kind |-> "NaN", v |-> Zero], [kind |-> "Infinity", v |-> Zero]}

\* what a client sends for one image: the upload's originalname and
\* mimetype, or the URL's pathname and the content type of its response
ClientFiles ==
    {[name |-> "b2.jpg", type |-> "image/jpeg"],
     [name |-> "p/a1", type |-> "image/png"],
     [name |-> "my pic.jpg", type |-> ""]}

\* "json": POST /v1/slideshow, "upload": POST /v1/slideshow/upload,
\* "direct": a call of the exported createSlideshowWithTTS
Requests ==
    [entry : {"json", "upload", "direct"},
     files : ListsUpTo(ClientFiles, MaxImages),
     text : {"", "hello"},
     speechRate : SpeechRates,
     bgm : BOOLEAN]

NoAudio ==
    [raw |-> Zero, timed |-> Zero, padded |-> Zero, duration |-> Zero,
     bgm |-> Zero, mixed |-> Zero, final |-> ""]

NoOutput == [made |-> FALSE, video |-> Zero, duration |-> Zero, shown |-> {}]

InitPipeline ==
    /\ pc = "idle"
    /\ work = "none"
    /\ calls = <<>>
    /\ audio = NoAudio
    /\ orderedImages = <<>>
    /\ tasks = <<>>
    /\ resizedImages = <<>>
    /\ durationPerSlide = Zero
    /\ lines = <<>>
    /\ output = NoOutput
    /\ error = ""

\* the requests that are handled at the same time under SpecWork
WsRequests == 1..MaxRequests

WsIdle ==
    /\ wsPhase = [r \in WsRequests |-> "idle"]
    /\ wsSrvDir = [r \in WsRequests |-> ""]
    /\ wsPipeDir = [r \in WsRequests |-> ""]

\* files["bgm"] is undefined
NoFile == [name |-> "", type |-> "none"]

UpIdle ==
    /\ upPc = "idle"
    /\ upFiles = <<>>
    /\ upBgmFile = NoFile
    /\ upImages = <<>>
    /\ upBgm = ""
    /\ upDisk = {}

InitRequest ==
    /\ WsIdle
    /\ UpIdle
    /\ retPc = "idle"
    /\ retSpeed = Finite(1, 1)
    /\ filters = <<>>
    /\ req = [entry |-> "none", files |-> <<>>, text |-> "", speechRate |-> Finite(1, 1), bgm |-> FALSE]
    /\ srvPc = "idle"
    /\ status = 0
    /\ srvWork = "none"
    /\ localImages = <<>>
    /\ aborted = FALSE
    /\ InitPipeline

\* ------------------------------------------------------------------------
\* SpecSort: smartSortImages applied to every list of at most MaxPaths of
\* these paths, and then to its own result
\* ------------------------------------------------------------------------

SortNames ==
    {"b2.jpg", "a10.jpg", "a2.jpg", "A2.jpg", "00-a2.jpg", "d/x1y22",
     "zz", "yy", "ZZ", "00-zz", "01-yy"}

InitSort ==
    /\ sortPc = "call"
    /\ sortIn \in ListsUpTo(SortNames, MaxPaths)
    /\ sortOrder = <<>>
    /\ sortOut = <<>>
    /\ sortAgain = <<>>
    /\ InitRequest

SortCall ==
    /\ sortPc = "call"
    /\ LET sorted == sortedItems(sortIn)
       IN  sortOrder' = [i \in 1..Len(sorted) |-> sorted[i].idx]
    /\ sortOut' = smartSortImages(sortIn)
    /\ sortPc' = "sorted"
    /\ UNCHANGED <<sortIn, sortAgain, retVars, wsVars, srvVars, pipeVars, upVars>>

SortResult ==
    /\ sortPc = "sorted"
    /\ sortAgain' = smartSortImages(sortOut)
    /\ sortPc' = "resorted"
    /\ UNCHANGED <<sortIn, sortOrder, sortOut, retVars, wsVars, srvVars, pipeVars, upVars>>

NextSort == SortCall \/ SortResult

\* SpecToken: smartSortImages applied to one path, every string of at most
\* MaxNameLen of these characters
TokenAlphabet == {"0", "1", "a", "-"}

RECURSIVE StringsOfLen(_)
StringsOfLen(n) ==
    IF n = 0 THEN {""}
    ELSE {x \o c : x \in StringsOfLen(n - 1), c \in TokenAlphabet}

TokenNames == UNION {StringsOfLen(n) : n \in 1..MaxNameLen}

InitToken ==
    /\ sortPc = "call"
    /\ sortIn \in {<<name>> : name \in TokenNames}
    /\ sortOrder = <<>>
    /\ sortOut = <<>>
    /\ sortAgain = <<>>
    /\ InitRequest

SpecToken == InitToken /\ [][NextSort]_vars

SpecSort == InitSort /\ [][NextSort]_vars


\* ------------------------------------------------------------------------
\* server.ts: POST /v1/slideshow and POST /v1/slideshow/upload
\* ------------------------------------------------------------------------

\* os.tmpdir()
TmpDir == "/tmp"

\* fs.mkdtempSync(path.join(os.tmpdir(), "api-run-")) of server.ts
SrvWorkDir == pathJoin(TmpDir, "api-run-K3x9")

\* A request arrives at a handler, or createSlideshowWithTTS is called
\* directly with the given paths.
Arrive(r) ==
    /\ srvPc = "idle"
    /\ req' = r
    /\ IF r.entry = "direct"
       THEN /\ srvPc' = "direct"
            /\ localImages' = [i \in 1..Len(r.files) |-> r.files[i].name]
            /\ pc' = "makeWorkDir"
       ELSE /\ srvPc' = "validate"
            /\ UNCHANGED <<localImages, pc>>
    /\ UNCHANGED <<status, srvWork, work, calls, audio, orderedImages, tasks,
                   resizedImages, durationPerSlide, lines, output, error>>
    /\ UNCHANGED fnVars
    /\ UNCHANGED aborted

\* if (!narrationText || images.length === 0) return res.status(400)...;
\* const work = makeWorkDir();
SrvValidate ==
    /\ srvPc = "validate"
    /\ IF req.text = "" \/ Len(req.files) = 0
       THEN /\ status' = 400
            /\ srvPc' = "done"
            /\ UNCHANGED srvWork
       ELSE /\ srvWork' = "present"
            /\ srvPc' = "store"
            /\ UNCHANGED status
    /\ UNCHANGED <<req, localImages, pipeVars, fnVars>>
    /\ UNCHANGED aborted

\* The images are stored under index-prefixed names, in the client's order.
SrvStore ==
    /\ srvPc = "store"
    /\ localImages' =
          [i \in 1..Len(req.files) |->
              pathJoin(SrvWorkDir,
                       IF req.entry = "upload"
                       THEN uploadFileName(req.files[i], i - 1)
                       ELSE downloadFileName(req.files[i], i - 1))]
    /\ srvPc' = "call"
    /\ UNCHANGED <<req, status, srvWork, pipeVars, fnVars>>
    /\ UNCHANGED aborted

\* downloadToTemp throws when a download fails: the catch block removes the
\* work directory and answers 500.
SrvDownloadFails ==
    /\ srvPc = "store"
    /\ req.entry = "json"
    /\ srvWork' = "removed"
    /\ status' = 500
    /\ srvPc' = "done"
    /\ UNCHANGED <<req, localImages, pipeVars, fnVars>>
    /\ UNCHANGED aborted

\* await createSlideshowWithTTS(localImages, ...)
SrvCall ==
    /\ srvPc = "call"
    /\ pc = "idle"
    /\ pc' = "makeWorkDir"
    /\ srvPc' = "await"
    /\ UNCHANGED <<req, status, srvWork, localImages, work, calls, audio,
                   orderedImages, tasks, resizedImages, durationPerSlide,
                   lines, output, error, fnVars>>
    /\ UNCHANGED aborted

PipelineSettled == pc = "settled"

\* the promise of createSlideshowWithTTS is fulfilled: the statements after
\* the await run
PipelineResolved == pc = "settled" /\ error = ""

\* The promise resolved: the file is streamed to the client.
SrvStream ==
    /\ srvPc = "await"
    /\ PipelineResolved
    /\ status' = 200
    /\ srvPc' = "streaming"
    /\ UNCHANGED <<req, srvWork, localImages, pipeVars, fnVars>>
    /\ UNCHANGED aborted

\* "close" of the response stream: the work directory is removed.
SrvClose ==
    /\ srvPc = "streaming"
    /\ srvWork' = "removed"
    /\ srvPc' = "done"
    /\ UNCHANGED <<req, status, localImages, pipeVars, fnVars>>
    /\ UNCHANGED aborted

\* The client closes the connection while the handler awaits the pipeline
\* and an external operation is in flight.  Neither handler listens for it
\* and no operation is given a way to be stopped: nothing else changes.
ClientAborts ==
    /\ srvPc = "await"
    /\ pc \in {"tts", "retime", "pad", "probe", "mix", "resizing", "encode"}
    /\ ~aborted
    /\ aborted' = TRUE
    /\ UNCHANGED <<req, srvPc, status, srvWork, localImages, pipeVars, fnVars>>

\* The "close" listener is attached when streaming starts; a response that
\* was closed before never emits it again, and the handler's work
\* directory stays.
SrvAbandon ==
    /\ srvPc = "streaming"
    /\ aborted
    /\ srvPc' = "done"
    /\ UNCHANGED <<req, status, srvWork, localImages, aborted, pipeVars, fnVars>>

\* The promise rejected: the catch block removes the work directory and
\* answers 500.
SrvCatch ==
    /\ srvPc = "await"
    /\ pc = "settled"
    /\ error # ""
    /\ srvWork' = "removed"
    /\ status' = 500
    /\ srvPc' = "done"
    /\ UNCHANGED <<req, localImages, pipeVars, fnVars>>
    /\ UNCHANGED aborted


\* ------------------------------------------------------------------------
\* createSlideshow.ts: createConcatListFile
\* ------------------------------------------------------------------------

\* p.replace(/'/g, "'\\''")
RECURSIVE EscapeQuotes(_)
EscapeQuotes(p) ==
    IF Len(p) = 0 THEN ""
    ELSE (IF Ch(p, 1) = "'" THEN "'\\''" ELSE Ch(p, 1)) \o EscapeQuotes(Tail(p))

\* the line  file '<path>'
FileLine(p) == [kind |-> "file", path |-> EscapeQuotes(p), value |-> Zero]

\* the line  duration <seconds>
DurationLine(d) == [kind |-> "duration", path |-> "", value |-> d]

\* the loop with a duration pushed after the final image too
RECURSIVE LoopLinesAll(_, _, _)
LoopLinesAll(images, duration, i) ==
    IF i > Len(images) THEN <<>>
    ELSE <<FileLine(images[i]), DurationLine(duration)>>
         \o LoopLinesAll(images, duration, i + 1)

\* the lines pushed by the loop for images[i..]
RECURSIVE LoopLines(_, _, _)
LoopLines(images, duration, i) ==
    IF i > Len(images) THEN <<>>
    ELSE <<FileLine(images[i])>>
         \o (IF i < Len(images) THEN <<DurationLine(duration)>> ELSE <<>>)
         \o LoopLines(images, duration, i + 1)

\* the list without the repeated last line
createConcatListFileNoRepeat(images, duration) == LoopLines(images, duration, 1)

\* the list with a duration pushed after every image, the last included
createConcatListFileHold(images, duration) ==
    LoopLinesAll(images, duration, 1) \o <<FileLine(images[Len(images)])>>

\* the lines written to listPath, for at least one image
createConcatListFile(images, duration) ==
    LoopLines(images, duration, 1) \o <<FileLine(images[Len(images)])>>

\* ------------------------------------------------------------------------
\* createSlideshow.ts: createSlideshowWithTTS
\* ------------------------------------------------------------------------

\* fs.mkdtempSync(path.join(os.tmpdir(), "slideshow-"))
PipeWorkDir == pathJoin(TmpDir, "slideshow-Q7w2")

framesDir == pathJoin(PipeWorkDir, "frames")

slidePathSame(idx) == pathJoin(framesDir, "slide.jpg")

\* the dest of resizeImages for the image at index idx (from 0)
slidePath(idx) == pathJoin(framesDir, "slide" \o padStart(ToStr(idx), 3) \o ".jpg")

\* seconds of speech the synthesis service may return
RawDurations == {<<2, 5>>, <<17, 2>>}

\* ms of addLeadInSilence, as passed by createSlideshowWithTTS
LeadInMs == 500

\* the minimum per-slide duration, 0.5 s
SlideFloor == <<1, 2>>

\* !isFinite(speed) || speed <= 0
InvalidSpeed(speed) == speed.kind # "finite" \/ RatLeq(speed.v, Zero)

\* Math.abs(speed - 1) < 1e-3
NearOne(speed) ==
    LET diff == RatSub(speed.v, <<1, 1>>)
    IN  RatLess(<<Abs(diff[1]), diff[2]>>, <<1, 1000>>)

\* s.toFixed(3) for s > 0: the number with three decimals nearest to s, the
\* larger one when two are equally near
toFixed3(s) == Norm(<<(2000 * s[1] + s[2]) \div (2 * s[2]), 1000>>)

Half == <<1, 2>>

Two == <<2, 1>>

\* while (s < 0.5) { filters.push("atempo=0.5"); s /= 0.5; }
RECURSIVE WhileSlow(_, _)
WhileSlow(fs, s) ==
    IF RatLess(s, Half) THEN WhileSlow(Append(fs, Half), RatDiv(s, Half))
    ELSE [filters |-> fs, s |-> s]

WhileFastNever(fs, s) == [filters |-> fs, s |-> s]

\* while (s > 2.0) { filters.push("atempo=2.0"); s /= 2.0; }
RECURSIVE WhileFast(_, _)
WhileFast(fs, s) ==
    IF RatLess(Two, s) THEN WhileFast(Append(fs, Two), RatDiv(s, Two))
    ELSE [filters |-> fs, s |-> s]

\* the filters of retimeAudio for a speed that is neither rejected nor
\* taken for 1: the values after "atempo=", in order
atempoChain(s) ==
    LET slow == WhileSlow(<<>>, s)
        fast == WhileFast(slow.filters, slow.s)
    IN  Append(fast.filters, toFixed3(fast.s))

\* the tempo change of a chain of atempo filters
RECURSIVE ChainProduct(_)
ChainProduct(fs) ==
    IF Len(fs) = 0 THEN <<1, 1>> ELSE RatMul(Head(fs), ChainProduct(Tail(fs)))

\* ------------------------------------------------------------------------
\* SpecRetime: retimeAudio called with each of these speeds
\* ------------------------------------------------------------------------

\* speeds up to MaxSixteenths / 16, in steps of 1/16
MaxSixteenths == 160

\* numbers a caller may pass as speed: multiples of 1/16, numbers next to
\* 1, a very slow and a very fast one, and numbers retimeAudio rejects
RetimeSpeeds ==
    {Finite(n, 16) : n \in 0..MaxSixteenths}
    \cup {Finite(n, 2048) : n \in 2045..2052}
    \cup {Finite(1, 2048), Finite(100, 1), Finite(-1, 1),
          [kind |-> "NaN", v |-> Zero], [kind |-> "Infinity", v |-> Zero]}

InitRetime ==
    /\ sortPc = "idle"
    /\ sortIn = <<>>
    /\ sortOrder = <<>>
    /\ sortOut = <<>>
    /\ sortAgain = <<>>
    /\ InitPipeline
    /\ req = [entry |-> "none", files |-> <<>>, text |-> "", speechRate |-> Finite(1, 1), bgm |-> FALSE]
    /\ srvPc = "idle"
    /\ status = 0
    /\ srvWork = "none"
    /\ localImages = <<>>
    /\ aborted = FALSE
    /\ WsIdle
    /\ UpIdle
    /\ retPc = "call"
    /\ retSpeed \in RetimeSpeeds
    /\ filters = <<>>

\* retimeAudio(inputPath, outputPath, speed) up to the start of ffmpeg
RetimeCall ==
    /\ retPc = "call"
    /\ IF InvalidSpeed(retSpeed)
       THEN /\ retPc' = "threw"
            /\ UNCHANGED filters
       ELSE IF NearOne(retSpeed)
       THEN /\ retPc' = "copied"
            /\ UNCHANGED filters
       ELSE /\ retPc' = "filtered"
            /\ filters' = atempoChain(retSpeed.v)
    /\ UNCHANGED <<retSpeed, sortVars, wsVars, srvVars, pipeVars, upVars>>

NextRetime == RetimeCall

SpecRetime == InitRetime /\ [][NextRetime]_vars

\* What the concat demuxer shows for the two trailing entries that carry no
\* duration directive is decided by the encoder, not by this code: one
\* frame of each still at the image reader's 25 fps, or the duration of the
\* entries before them.
TrailingLengths(d) == {<<2, 25>>, d}

FailSkipsCleanup(msg) ==
    /\ error' = msg
    /\ pc' = "settled"

\* a throw or a rejected await inside the try block: control goes to the
\* finally block
Fail(msg) ==
    /\ error' = msg
    /\ pc' = "finally"

\* const work = makeWorkDir(); mkdirSync(audioDir); mkdirSync(framesDir)
\* These three statements stand before the try block: when mkdtempSync
\* throws there is no work directory, when a mkdirSync throws there is one,
\* and in both cases the call rejects without reaching the finally block.
PMakeWorkDir(outcome) ==
    /\ pc = "makeWorkDir"
    /\ CASE outcome = "ok" ->
              /\ work' = "present"
              /\ pc' = "tts"
              /\ UNCHANGED error
         [] outcome = "mkdtemp throws" ->
              /\ error' = "mkdtemp failed"
              /\ pc' = "settled"
              /\ UNCHANGED work
         [] outcome = "mkdir throws" ->
              /\ work' = "present"
              /\ error' = "mkdir failed"
              /\ pc' = "settled"
    /\ UNCHANGED <<calls, audio, orderedImages, tasks, resizedImages,
                   durationPerSlide, lines, output, srvVars, fnVars>>

\* 1) await generateTTS(...)
PTts(ok, d) ==
    /\ pc = "tts"
    /\ calls' = Append(calls, "tts")
    /\ IF ok
       THEN /\ audio' = [audio EXCEPT !.raw = d]
            /\ pc' = "retime"
            /\ UNCHANGED error
       ELSE /\ Fail("speech synthesis failed")
            /\ UNCHANGED audio
    /\ UNCHANGED <<work, orderedImages, tasks, resizedImages, durationPerSlide,
                   lines, output, srvVars, fnVars>>

\* 2) await retimeAudio(ttsRaw, ttsTimed, speechRate)
PRetime(ok) ==
    /\ pc = "retime"
    /\ IF InvalidSpeed(req.speechRate)
       THEN /\ Fail("speechRate must be > 0")
            /\ UNCHANGED <<calls, audio>>
       ELSE IF NearOne(req.speechRate)
       THEN /\ audio' = [audio EXCEPT !.timed = audio.raw]
            /\ pc' = "pad"
            /\ UNCHANGED <<calls, error>>
       ELSE /\ calls' = Append(calls, "retime")
            /\ IF ok
               THEN /\ audio' = [audio EXCEPT !.timed = RatDiv(audio.raw, ChainProduct(atempoChain(req.speechRate.v)))]
                    /\ pc' = "pad"
                    /\ UNCHANGED error
               ELSE /\ Fail("retime failed")
                    /\ UNCHANGED audio
    /\ UNCHANGED <<work, orderedImages, tasks, resizedImages, durationPerSlide,
                   lines, output, srvVars, fnVars>>

addNoSilence(input, ms) == input

\* addLeadInSilence: the length of the file written, ms / 1000 seconds of
\* anullsrc concatenated with the input
addLeadInSilence(input, ms) == RatAdd(<<ms, 1000>>, input)

\* 3) await addLeadInSilence(ttsTimed, ttsPadded, 500)
PPad(ok) ==
    /\ pc = "pad"
    /\ calls' = Append(calls, "pad")
    /\ IF ok
       THEN /\ audio' = [audio EXCEPT !.padded = addLeadInSilence(audio.timed, LeadInMs)]
            /\ pc' = "probe"
            /\ UNCHANGED error
       ELSE /\ Fail("pad failed")
            /\ UNCHANGED audio
    /\ UNCHANGED <<work, orderedImages, tasks, resizedImages, durationPerSlide,
                   lines, output, srvVars, fnVars>>

AfterProbeNoMix == "frames"

\* if (backgroundMusicPath) { await mixNarrationWithBackground(...) }
AfterProbe == IF req.bgm THEN "mix" ELSE "frames"

\* 4) const audioDuration = await getAudioDuration(ttsPadded);
\*    let finalAudioPath = ttsPadded;
PProbe(ok) ==
    /\ pc = "probe"
    /\ calls' = Append(calls, "probe")
    /\ IF ok
       THEN /\ audio' = [audio EXCEPT !.duration = audio.padded, !.final = "tts_padded.wav"]
            /\ pc' = AfterProbe
            /\ UNCHANGED error
       ELSE /\ Fail("probe failed")
            /\ UNCHANGED audio
    /\ UNCHANGED <<work, orderedImages, tasks, resizedImages, durationPerSlide,
                   lines, output, srvVars, fnVars>>

\* seconds of background music a client may supply
BgmDurations == {<<3, 10>>, <<30, 1>>}

amixShortest(first, second) == RatMin(first, second)

\* amix=inputs=2:duration=first: the mix lasts as long as its first input
amixDuration(first, second) == first

\* mixNarrationWithBackground: the length of the file written for a
\* narration and a background of these lengths; -t ttsLength ends the
\* output at ttsLength
mixNarrationWithBackground(narration, background, ttsLength) ==
    RatMin(amixDuration(narration, background), ttsLength)

\* 5) await mixNarrationWithBackground(...); finalAudioPath = mixedAudio;
PMix(ok, bg) ==
    /\ pc = "mix"
    /\ calls' = Append(calls, "mix")
    /\ IF ok
       THEN /\ audio' = [audio EXCEPT
                            !.bgm = bg,
                            !.mixed = mixNarrationWithBackground(audio.padded, bg, audio.duration),
                            !.final = "tts_mixed.wav"]
            /\ pc' = "frames"
            /\ UNCHANGED error
       ELSE /\ Fail("mix failed")
            /\ UNCHANGED audio
    /\ UNCHANGED <<work, orderedImages, tasks, resizedImages, durationPerSlide,
                   lines, output, srvVars, fnVars>>

\* 6) orderedImages = smartSortImages(images); resizeImages starts one
\*    sharp task per image, all at once.
PStartResize ==
    /\ pc = "frames"
    /\ orderedImages' = smartSortImages(localImages)
    /\ tasks' = [i \in 1..Len(localImages) |-> "running"]
    /\ calls' = calls \o [i \in 1..Len(localImages) |-> "resize"]
    /\ pc' = "resizing"
    /\ UNCHANGED <<work, audio, resizedImages, durationPerSlide, lines, output,
                   error, srvVars, fnVars>>

\* the file the i-th task writes (dest) and the image it reads (src); i
\* counts from 1, the code's idx from 0
TaskDest(i) == slidePath(i - 1)

TaskSrc(i) == orderedImages[i]

\* One sharp task ends.
TaskEnds(i, ok) ==
    /\ i \in 1..Len(tasks)
    /\ tasks[i] = "running"
    /\ tasks' = [tasks EXCEPT ![i] = IF ok THEN "done" ELSE "failed"]
    /\ UNCHANGED <<pc, work, calls, audio, orderedImages, resizedImages,
                   durationPerSlide, lines, output, error, srvVars, fnVars>>

PromiseAllRace(ts) ==
    IF \E i \in 1..Len(ts) : ts[i] = "done" THEN "fulfilled"
    ELSE IF \E i \in 1..Len(ts) : ts[i] = "failed" THEN "rejected"
    ELSE "pending"

PromiseAllSettled(ts) ==
    IF \E i \in 1..Len(ts) : ts[i] = "running" THEN "pending" ELSE "fulfilled"

\* Promise.all(tasks): rejected once a task has failed, fulfilled once all
\* are done
PromiseAll(ts) ==
    IF \E i \in 1..Len(ts) : ts[i] = "failed" THEN "rejected"
    ELSE IF \A i \in 1..Len(ts) : ts[i] = "done" THEN "fulfilled"
    ELSE "pending"

\* Promise.all(tasks) settles: it rejects as soon as one task has failed and
\* resolves once all are done.  Then: the empty check, the per-slide
\* duration and createConcatListFile.
PAfterResize ==
    /\ pc = "resizing"
    /\ PromiseAll(tasks) # "pending"
    /\ LET n == Len(tasks)
       IN  IF PromiseAll(tasks) = "rejected"
           THEN /\ Fail("resize failed")
                /\ UNCHANGED <<resizedImages, durationPerSlide, lines>>
           ELSE /\ resizedImages' = [i \in 1..n |-> slidePath(i - 1)]
                /\ IF n = 0
                   THEN /\ Fail("No images provided")
                        /\ UNCHANGED <<durationPerSlide, lines>>
                   ELSE /\ durationPerSlide' = RatMax(SlideFloor, RatDiv(audio.duration, <<n, 1>>))
                        /\ lines' = createConcatListFile(resizedImages', durationPerSlide')
                        /\ pc' = "encode"
                        /\ UNCHANGED error
    /\ UNCHANGED <<work, calls, audio, orderedImages, tasks, output, srvVars, fnVars>>

\* the length of the file at finalAudioPath
FinalAudioDuration ==
    IF audio.final = "tts_mixed.wav" THEN audio.mixed ELSE audio.padded

longest(video, sound) == RatMax(video, sound)

\* -shortest: the output ends with the shorter of its input streams
shortest(video, sound) == RatMin(video, sound)

\* the instant at which the descriptor schedules the k-th frame
ScheduledAt(k) == RatTimes(k - 1, durationPerSlide)

\* 7) the encoder reads list.txt and finalAudioPath; -shortest ends the
\*    output with the shorter of the two streams.
PEncode(ok, trailing) ==
    /\ pc = "encode"
    /\ calls' = Append(calls, "encode")
    /\ IF ok
       THEN /\ LET video == RatAdd(RatTimes(Len(resizedImages) - 1, durationPerSlide), trailing)
                   duration == shortest(video, FinalAudioDuration)
               IN  output' = [made |-> TRUE, video |-> video, duration |-> duration,
                              shown |-> {k \in 1..Len(resizedImages) :
                                            RatLess(ScheduledAt(k), duration)}]
            /\ pc' = "finally"
            /\ UNCHANGED error
       ELSE /\ Fail("encode failed")
            /\ UNCHANGED output
    /\ UNCHANGED <<work, audio, orderedImages, tasks, resizedImages,
                   durationPerSlide, lines, srvVars, fnVars>>

AfterRemovalRaises(removed, thrown) ==
    IF removed THEN thrown ELSE "rmSync failed"

\* catch (e) { console.warn("Temp cleanup failed:", e); }: what the call
\* throws after the finally block, given what the try block threw
AfterRemoval(removed, thrown) == thrown

\* finally { try { fs.rmSync(work, { recursive: true, force: true }) }
\*           catch (e) { console.warn(...) } }
PFinally(removed) ==
    /\ pc = "finally"
    /\ work' = IF removed THEN "removed" ELSE "removal failed"
    /\ error' = AfterRemoval(removed, error)
    /\ pc' = "settled"
    /\ UNCHANGED <<calls, audio, orderedImages, tasks, resizedImages,
                   durationPerSlide, lines, output, srvVars, fnVars>>

\* ------------------------------------------------------------------------
\* SpecWork: the work directories of requests handled at the same time
\* ------------------------------------------------------------------------

\* the six characters mkdtemp may append to a prefix
Suffixes == {"a1B2c3", "Zz9Yy8", "q0W1e2"}

\* the work directories that exist
WsDisk ==
    {wsSrvDir[r] : r \in WsRequests} \cup {wsPipeDir[r] : r \in WsRequests}

mkdtempAny(prefix, disk) == {prefix \o x : x \in Suffixes}

\* fs.mkdtempSync(prefix): the directories it may create and return, one
\* that did not exist
mkdtempSync(prefix, disk) == {prefix \o x : x \in Suffixes} \ disk

\* the paths a request reads or writes beneath its work directories
WsPaths(r) ==
    (IF wsSrvDir[r] = "" THEN {}
     ELSE {pathJoin(wsSrvDir[r], f) : f \in {"0000-b2.jpg", "bgm.mp3", "out.mp4"}})
    \cup
    (IF wsPipeDir[r] = "" THEN {}
     ELSE {pathJoin(wsPipeDir[r], f) :
              f \in {"audio/tts_raw.wav", "audio/tts_timed.wav",
                     "audio/tts_padded.wav", "audio/tts_mixed.wav",
                     "frames/slide000.jpg", "list.txt"}})

\* server.ts: const work = makeWorkDir();
WsSrvMakeWorkDir(r) ==
    /\ wsPhase[r] = "idle"
    /\ \E d \in mkdtempSync(pathJoin(TmpDir, "api-run-"), WsDisk) :
          wsSrvDir' = [wsSrvDir EXCEPT ![r] = d]
    /\ wsPhase' = [wsPhase EXCEPT ![r] = "handler"]
    /\ UNCHANGED <<wsPipeDir, sortVars, retVars, srvVars, pipeVars, upVars>>

\* createSlideshow.ts: const work = makeWorkDir();
WsPipeMakeWorkDir(r) ==
    /\ wsPhase[r] = "handler"
    /\ \E d \in mkdtempSync(pathJoin(TmpDir, "slideshow-"), WsDisk) :
          wsPipeDir' = [wsPipeDir EXCEPT ![r] = d]
    /\ wsPhase' = [wsPhase EXCEPT ![r] = "pipeline"]
    /\ UNCHANGED <<wsSrvDir, sortVars, retVars, srvVars, pipeVars, upVars>>

\* finally { fs.rmSync(work, ...) } of createSlideshowWithTTS
WsPipeRemove(r) ==
    /\ wsPhase[r] = "pipeline"
    /\ wsPipeDir' = [wsPipeDir EXCEPT ![r] = ""]
    /\ wsPhase' = [wsPhase EXCEPT ![r] = "settled"]
    /\ UNCHANGED <<wsSrvDir, sortVars, retVars, srvVars, pipeVars, upVars>>

\* fs.rmSync(work, ...) of the handler, in its catch block or on "close";
\* a download that fails comes here without the pipeline being called
WsSrvRemove(r) ==
    /\ wsPhase[r] \in {"handler", "settled"}
    /\ wsSrvDir' = [wsSrvDir EXCEPT ![r] = ""]
    /\ wsPhase' = [wsPhase EXCEPT ![r] = "done"]
    /\ UNCHANGED <<wsPipeDir, sortVars, retVars, srvVars, pipeVars, upVars>>

\* the connection is used for another request
WsNextRequest(r) ==
    /\ wsPhase[r] = "done"
    /\ wsPhase' = [wsPhase EXCEPT ![r] = "idle"]
    /\ UNCHANGED <<wsSrvDir, wsPipeDir, sortVars, retVars, srvVars, pipeVars, upVars>>

InitWork ==
    /\ sortPc = "idle"
    /\ sortIn = <<>>
    /\ sortOrder = <<>>
    /\ sortOut = <<>>
    /\ sortAgain = <<>>
    /\ InitRequest

NextWork ==
    \E r \in WsRequests :
        \/ WsSrvMakeWorkDir(r)
        \/ WsPipeMakeWorkDir(r)
        \/ WsPipeRemove(r)
        \/ WsSrvRemove(r)
        \/ WsNextRequest(r)

SpecWork == InitWork /\ [][NextWork]_vars

\* ------------------------------------------------------------------------
\* SpecUpload: the persist block of POST /v1/slideshow/upload, for every
\* list of 1..MaxImages uploaded images and every background-music file
\* ------------------------------------------------------------------------

\* what a client sends as the bgm part: originalname and mimetype
BgmFiles ==
    {[name |-> "song.mp3", type |-> "audio/mpeg"],
     [name |-> "", type |-> "audio/wav"],
     [name |-> "theme", type |-> ""],
     [name |-> "0000-b2.jpg", type |-> "audio/mpeg"]}

\* the file name given to the uploaded bgm, f = [name |-> originalname,
\* type |-> mimetype]
bgmFileName(f) ==
    LET rawBase == IF f.name # "" THEN f.name ELSE "bgm"
        base    == StripExt(safeBaseName(rawBase))
        ext     == OrElse(extname(rawBase), extFromContentType(f.type))
    IN  base \o OrElse(ext, ".mp3")

\* fs.writeFileSync(p, data): p holds data, whatever it held
writeFileSync(disk, p, data) ==
    {e \in disk : e.path # p} \cup {[path |-> p, data |-> data]}

\* f.buffer of the i-th uploaded image (i from 0)
ImageBuffer(i) == "image " \o ToStr(i)

BgmBuffer == "bgm"

\* the work directory after images.forEach has stored images[1..k]
RECURSIVE PersistImages(_, _)
PersistImages(files, k) ==
    IF k = 0 THEN {}
    ELSE writeFileSync(PersistImages(files, k - 1),
                       pathJoin(SrvWorkDir, uploadFileName(files[k], k - 1)),
                       ImageBuffer(k - 1))

\* images.forEach((f, i) => { ...; fs.writeFileSync(p, f.buffer);
\* localImages.push(p); })
UpPersistImages ==
    /\ upPc = "images"
    /\ upImages' = [i \in 1..Len(upFiles) |->
                       pathJoin(SrvWorkDir, uploadFileName(upFiles[i], i - 1))]
    /\ upDisk' = PersistImages(upFiles, Len(upFiles))
    /\ upPc' = "bgm"
    /\ UNCHANGED <<upFiles, upBgmFile, upBgm, sortVars, retVars, wsVars,
                   srvVars, pipeVars>>

\* if (bgmFile) { ...; fs.writeFileSync(p, bgmFile.buffer); localBgm = p; }
UpPersistBgm ==
    /\ upPc = "bgm"
    /\ IF upBgmFile # NoFile
       THEN LET p == pathJoin(SrvWorkDir, bgmFileName(upBgmFile))
            IN  /\ upDisk' = writeFileSync(upDisk, p, BgmBuffer)
                /\ upBgm' = p
       ELSE UNCHANGED <<upDisk, upBgm>>
    /\ upPc' = "stored"
    /\ UNCHANGED <<upFiles, upBgmFile, upImages, sortVars, retVars, wsVars,
                   srvVars, pipeVars>>

InitUpload ==
    /\ sortPc = "idle"
    /\ sortIn = <<>>
    /\ sortOrder = <<>>
    /\ sortOut = <<>>
    /\ sortAgain = <<>>
    /\ WsIdle
    /\ retPc = "idle"
    /\ retSpeed = Finite(1, 1)
    /\ filters = <<>>
    /\ req = [entry |-> "none", files |-> <<>>, text |-> "", speechRate |-> Finite(1, 1), bgm |-> FALSE]
    /\ srvPc = "idle"
    /\ status = 0
    /\ srvWork = "none"
    /\ localImages = <<>>
    /\ aborted = FALSE
    /\ InitPipeline
    /\ upPc = "images"
    /\ upFiles \in ListsUpTo(ClientFiles, MaxImages) \ {<<>>}
    /\ upBgmFile \in BgmFiles \cup {NoFile}
    /\ upImages = <<>>
    /\ upBgm = ""
    /\ upDisk = {}

NextUpload == UpPersistImages \/ UpPersistBgm

SpecUpload == InitUpload /\ [][NextUpload]_vars

Init ==
    /\ sortPc = "idle"
    /\ sortIn = <<>>
    /\ sortOrder = <<>>
    /\ sortOut = <<>>
    /\ sortAgain = <<>>
    /\ InitRequest

Next ==
    \/ (srvPc = "idle" /\ \E r \in Requests : Arrive(r))
    \/ SrvValidate
    \/ SrvStore
    \/ SrvDownloadFails
    \/ SrvCall
    \/ SrvStream
    \/ SrvClose
    \/ SrvCatch
    \/ ClientAborts
    \/ SrvAbandon
    \/ \E outcome \in {"ok", "mkdtemp throws", "mkdir throws"} : PMakeWorkDir(outcome)
    \/ \E ok \in BOOLEAN, d \in RawDurations : PTts(ok, d)
    \/ \E ok \in BOOLEAN : PRetime(ok)
    \/ \E ok \in BOOLEAN : PPad(ok)
    \/ \E ok \in BOOLEAN : PProbe(ok)
    \/ \E ok \in BOOLEAN, bg \in BgmDurations : PMix(ok, bg)
    \/ PStartResize
    \/ \E i \in 1..MaxImages, ok \in BOOLEAN : TaskEnds(i, ok)
    \/ PAfterResize
    \/ \E ok \in BOOLEAN : \E trailing \in TrailingLengths(durationPerSlide) : PEncode(ok, trailing)
    \/ \E removed \in BOOLEAN : PFinally(removed)

Spec == Init /\ [][Next]_vars

\* ------------------------------------------------------------------------
\* Properties of smartSortImages (SpecSort)
\* ------------------------------------------------------------------------

\* sortOut is sortIn rearranged as sortOrder says, nothing lost or repeated
Rearranged ==
    /\ Len(sortOut) = Len(sortIn)
    /\ Len(sortOrder) = Len(sortIn)
    /\ {sortOrder[i] : i \in 1..Len(sortOrder)} = 1..Len(sortIn)
    /\ \A i \in 1..Len(sortIn) : sortOut[i] = sortIn[sortOrder[i]]

\* the fields of the reference at input position k
RefAt(k) == MakeItem(sortIn[k], k)

SomeTokened == \E k \in 1..Len(sortIn) : HasNum(NameNoPrefix(basename(sortIn[k])))

\* prefixIdx of a below that of b, an absent prefix counting as +infinity
PrefixBelow(a, b) == a.hasPrefix /\ (~b.hasPrefix \/ a.prefixIdx < b.prefixIdx)

PrefixSame(a, b) ==
    /\ a.hasPrefix = b.hasPrefix
    /\ (a.hasPrefix => a.prefixIdx = b.prefixIdx)

\* the order of numeric mode between the references a and b
NumericOrder(a, b) ==
    IF a.hasNum /\ b.hasNum
    THEN \/ a.num < b.num
         \/ /\ a.num = b.num
            /\ \/ collatorCompare(a.nameNoPrefix, b.nameNoPrefix) < 0
               \/ /\ collatorCompare(a.nameNoPrefix, b.nameNoPrefix) = 0
                  /\ \/ PrefixBelow(a, b)
                     \/ (PrefixSame(a, b) /\ a.idx < b.idx)
    ELSE IF a.hasNum # b.hasNum THEN a.hasNum
    ELSE PrefixBelow(a, b) \/ (PrefixSame(a, b) /\ a.idx < b.idx)

\* the order used when no reference has a token
PlainOrder(a, b) ==
    \/ PrefixBelow(a, b)
    \/ /\ PrefixSame(a, b)
       /\ \/ collatorCompare(a.base, b.base) < 0
          \/ (collatorCompare(a.base, b.base) = 0 /\ a.idx < b.idx)

\* C5: in numeric mode (some reference has a numeric token) the result lists
\* the tokened references first, by token value, then natural comparison of
\* nameWithoutPrefix, then prefixIdx, then input position, and after them
\* the untokened ones by prefixIdx, then input position; [b2.jpg, a10.jpg,
\* a2.jpg] comes out as [a2.jpg, b2.jpg, a10.jpg].
NumericModeOrder ==
    (sortPc # "call" /\ SomeTokened) =>
        /\ Rearranged
        /\ \A i, j \in 1..Len(sortIn) :
              i < j => NumericOrder(RefAt(sortOrder[i]), RefAt(sortOrder[j]))
        /\ sortIn = <<"b2.jpg", "a10.jpg", "a2.jpg">>
              => sortOut = <<"a2.jpg", "b2.jpg", "a10.jpg">>

NumericModeWitness ==
    /\ sortPc = "sorted"
    /\ sortIn = <<"zz", "a2.jpg", "00-a2.jpg">>
    /\ sortOut = <<"00-a2.jpg", "a2.jpg", "zz">>

\* C7: when no reference has a numeric token the result is ordered by
\* prefixIdx (unprefixed references after all prefixed ones), then natural
\* comparison of the full basename, then input position.
PlainModeOrder ==
    (sortPc # "call" /\ ~SomeTokened) =>
        /\ Rearranged
        /\ \A i, j \in 1..Len(sortIn) :
              i < j => PlainOrder(RefAt(sortOrder[i]), RefAt(sortOrder[j]))

PlainModeWitness ==
    /\ sortPc = "sorted"
    /\ sortIn = <<"zz", "yy", "00-zz">>
    /\ sortOut = <<"00-zz", "yy", "zz">>

\* C8: sorting the result of smartSortImages again returns it unchanged.
SortIdempotent == sortPc = "resorted" => sortAgain = sortOut

SortIdempotentWitness ==
    /\ sortPc = "resorted"
    /\ sortIn = <<"ZZ", "A2.jpg", "a2.jpg">>
    /\ sortOut = <<"A2.jpg", "a2.jpg", "ZZ">>
    /\ sortAgain = sortOut

\* C9: the comparator is a strict total order on the items of any input
\* (antisymmetric, transitive, items at different positions never equal), and
\* the result is the one rearrangement of the input that ascends in it.
ComparatorStrictTotalOrder ==
    sortPc # "call" =>
        LET items == MakeItems(sortIn)
            nm    == NumericMode(items)
            n     == Len(sortIn)
            Cmp(i, j) == compareItems(items[i], items[j], nm)
        IN  /\ \A i, j \in 1..n : Cmp(i, j) = -Cmp(j, i)
            /\ \A i, j \in 1..n : i # j => Cmp(i, j) # 0
            /\ \A i, j, k \in 1..n : (Cmp(i, j) < 0 /\ Cmp(j, k) < 0) => Cmp(i, k) < 0
            /\ Rearranged
            /\ \A i, j \in 1..n : i < j => Cmp(sortOrder[i], sortOrder[j]) < 0

ComparatorWitness ==
    /\ sortPc = "sorted"
    /\ sortIn = <<"a2.jpg", "zz", "a2.jpg">>
    /\ sortOrder = <<1, 3, 2>>
    /\ sortOut = <<"a2.jpg", "a2.jpg", "zz">>

\* ------------------------------------------------------------------------
\* Properties of createSlideshowWithTTS and the handlers (Spec)
\* ------------------------------------------------------------------------

Called == pc # "idle"

\* the call failed before its try block, while setting up its directories
WorkDirFailed == error \in {"mkdtemp failed", "mkdir failed"}

\* fs.rmSync has been called on the pipeline's work directory
RemovalAttempted == work \in {"removed", "removal failed"}

FrameCount == Len(resizedImages)

\* the descriptor has been written
Described == lines # <<>>

FileEntries == SelectSeq(lines, LAMBDA l : l.kind = "file")

DurationEntries == SelectSeq(lines, LAMBDA l : l.kind = "duration")

\* the entry of the final frame, as it is written
FinalEntry == FileLine(resizedImages[FrameCount])

\* where the final frame's entry stands in the descriptor
FinalEntryAt ==
    LET final == FinalEntry
    IN  {k \in 1..Len(lines) : lines[k] = final}

FollowedByDuration(k) == k < Len(lines) /\ lines[k + 1].kind = "duration"

\* C1: a speechRate that is <= 0, NaN or infinite makes the call fail with
\* the input error before any external call has been issued.
InvalidSpeedRejectedFirst ==
    (Called /\ InvalidSpeed(req.speechRate)) =>
        /\ calls = <<>>
        /\ (pc = "settled" /\ ~WorkDirFailed) => error = "speechRate must be > 0"

\* C10: an empty image list makes the call fail with the input error before
\* any external call has been issued.
EmptyImagesRejectedFirst ==
    (Called /\ localImages = <<>>) =>
        /\ calls = <<>>
        /\ (pc = "settled" /\ ~WorkDirFailed) => error = "No images provided"

\* the time given to the frames before the final one
NonFinalTime == RatTimes(FrameCount - 1, durationPerSlide)

\* the time the final frame stays on screen in the assembled output
FinalHeld ==
    IF RatLess(NonFinalTime, output.duration)
    THEN RatSub(output.duration, NonFinalTime)
    ELSE Zero

Within(a, b, tol) ==
    LET diff == RatSub(a, b)
    IN  RatLeq(<<Abs(diff[1]), diff[2]>>, tol)

\* C2: in every completed request the durations of the non-final frames plus
\* the time the final frame is held add up to the final audio duration.
TotalSlideTimeIsAudioDuration ==
    (pc = "settled" /\ output.made) =>
        Within(RatAdd(NonFinalTime, FinalHeld), audio.duration, <<1, 1000>>)

\* C3, as claimed: the final frame appears exactly twice, its first
\* occurrence paired with a duration entry, its second with none.
FinalFrameFirstWithDuration ==
    Described =>
        /\ Cardinality(FinalEntryAt) = 2
        /\ \E k1, k2 \in FinalEntryAt :
              /\ k1 < k2
              /\ FollowedByDuration(k1)
              /\ ~FollowedByDuration(k2)

\* C3, amended: the final frame appears exactly twice, as the last two
\* entries of the descriptor, and neither occurrence is paired with a
\* duration entry.
FinalFrameTwiceNoDuration ==
    Described =>
        LET at == FinalEntryAt
        IN  /\ Cardinality(at) = 2
            /\ at = {Len(lines) - 1, Len(lines)}
            /\ \A k \in at : ~FollowedByDuration(k)

FinalFrameWitness ==
    /\ pc = "encode"
    /\ FrameCount = 2
    /\ lines = <<FileLine(slidePath(0)), DurationLine(durationPerSlide),
                 FileLine(slidePath(1)), FileLine(slidePath(1))>>

\* C4: for N >= 2 frames the descriptor has N+1 file entries, every frame
\* once in order and the last once more, and N-1 duration entries, each the
\* per-slide duration; 3 frames and 9.0 s of audio give 3.0 s per slide, 4
\* file entries and 2 duration entries.
DescriptorCounts ==
    (Described /\ FrameCount >= 2) =>
      LET files == FileEntries
          durations == DurationEntries
      IN
        /\ Len(files) = FrameCount + 1
        /\ \A i \in 1..FrameCount : files[i].path = EscapeQuotes(resizedImages[i])
        /\ files[FrameCount + 1].path = EscapeQuotes(resizedImages[FrameCount])
        /\ Len(durations) = FrameCount - 1
        /\ \A i \in 1..Len(durations) : durations[i].value = durationPerSlide
        /\ (FrameCount = 3 /\ RatEq(audio.duration, <<9, 1>>)) =>
              /\ RatEq(durationPerSlide, <<3, 1>>)
              /\ Len(FileEntries) = 4
              /\ Len(DurationEntries) = 2

DescriptorCountsWitness ==
    /\ pc = "encode"
    /\ FrameCount = 3
    /\ RatEq(audio.duration, <<9, 1>>)
    /\ Len(lines) = 6

\* C6: for both endpoints the frames reach the encoder in the order in which
\* the client supplied the images, whatever their file names.
ClientOrderKept ==
    (req.entry \in {"json", "upload"} /\ \E i \in 1..Len(calls) : calls[i] = "encode") =>
        orderedImages = localImages

\* ------------------------------------------------------------------------
\* Properties of retimeAudio (SpecRetime)
\* ------------------------------------------------------------------------

\* the relative error the three decimals of the emitted residual allow
RetimeTolerance == <<1, 1000>>

\* |a - b| <= tol * b
WithinRelative(a, b, tol) ==
    LET diff == RatSub(a, b)
    IN  RatLeq(<<Abs(diff[1]), diff[2]>>, RatMul(tol, b))

\* C11: for every finite speed s > 0 that is not taken for 1, every value of
\* the atempo chain, the rounded residual included, lies in [0.5, 2.0], and
\* the product of the values is s up to the rounding of the residual to
\* three decimals, a relative error of at most 1/1000.
AtempoChainInRange ==
    retPc = "filtered" =>
        /\ Len(filters) >= 1
        /\ \A i \in 1..Len(filters) :
              RatLeq(Half, filters[i]) /\ RatLeq(filters[i], Two)
        /\ WithinRelative(ChainProduct(filters), retSpeed.v, RetimeTolerance)

\* the error floating-point arithmetic on the factors could account for
FloatTolerance == <<1, 1000000>>

\* C11 as stated, the tolerance read as a floating-point one: the product
\* of the emitted values is s up to a relative error of 1/1000000.
AtempoChainExact ==
    retPc = "filtered" =>
        /\ \A i \in 1..Len(filters) :
              RatLeq(Half, filters[i]) /\ RatLeq(filters[i], Two)
        /\ WithinRelative(ChainProduct(filters), retSpeed.v, FloatTolerance)

\* 9.0625 is split into 2.0, 2.0, 2.0 and the residual 1.1328125, emitted
\* as 1.133
AtempoChainWitness ==
    /\ retPc = "filtered"
    /\ RatEq(retSpeed.v, <<145, 16>>)
    /\ filters = <<Two, Two, Two, <<1133, 1000>>>>

\* ------------------------------------------------------------------------
\* Properties of the timing allocation (Spec)
\* ------------------------------------------------------------------------

\* C12: for frameCount >= 1 and audioDuration > 0 the per-slide duration is
\* max(0.5, audioDuration / frameCount): it is never below the 0.5 s floor
\* and frameCount times it is at least the audio duration.
PerSlideDurationFloor ==
    (Described /\ FrameCount >= 1 /\ RatLess(Zero, audio.duration)) =>
        /\ RatEq(durationPerSlide,
                 RatMax(SlideFloor, RatDiv(audio.duration, <<FrameCount, 1>>)))
        /\ RatLeq(SlideFloor, durationPerSlide)
        /\ RatLeq(audio.duration, RatTimes(FrameCount, durationPerSlide))

\* 3 frames and 0.9 s of audio: 0.3 s per frame is raised to the floor
PerSlideDurationWitness ==
    /\ pc = "encode"
    /\ FrameCount = 3
    /\ RatEq(audio.duration, <<9, 10>>)
    /\ RatEq(durationPerSlide, SlideFloor)

\* ------------------------------------------------------------------------
\* Properties of the audio chain (Spec)
\* ------------------------------------------------------------------------

AudioStages == <<"tts", "retime", "pad", "probe", "mix">>

IsAudioStage(c) == c \in {"tts", "retime", "pad", "probe", "mix"}

StageRank(c) == CHOOSE k \in 1..Len(AudioStages) : AudioStages[k] = c

Started(c) == \E i \in 1..Len(calls) : calls[i] = c

LastCall == calls[Len(calls)]

\* the stage before c has delivered its artifact
PreviousCompleted(c) ==
    CASE c = "tts" -> calls = <<>>
      [] c = "retime" -> LastCall = "tts" /\ audio.raw # Zero
      [] c = "pad" -> LastCall \in {"tts", "retime"} /\ audio.timed # Zero
      [] c = "probe" -> LastCall = "pad" /\ audio.padded # Zero
      [] c = "mix" -> LastCall = "probe" /\ audio.duration = audio.padded /\ req.bgm

\* the audio calls issued so far are in the order of AudioStages, none
\* twice, and none after a frame or encoder call
AudioCallsOrdered ==
    \A j \in 2..Len(calls) :
        IsAudioStage(calls[j]) =>
            \A i \in 1..(j - 1) :
                /\ IsAudioStage(calls[i])
                /\ StageRank(calls[i]) < StageRank(calls[j])

\* C13: the audio stages start in the order synthesize, retime, pad, probe,
\* mix, each only after the one before it has completed without error; mix
\* runs if and only if background music was supplied, and the encoder
\* receives the mixed audio exactly in that case, the padded audio otherwise.
AudioStagesInOrder ==
    /\ [] AudioCallsOrdered
    /\ [][\A c \in {"tts", "retime", "pad", "probe", "mix"} :
            (calls' = Append(calls, c)) => (error = "" /\ PreviousCompleted(c))]_vars
    /\ [] (Started("encode") =>
             /\ Started("mix") <=> req.bgm
             /\ audio.final = IF req.bgm THEN "tts_mixed.wav" ELSE "tts_padded.wav")

\* a run with retiming and background music that reached the encoder
AudioStagesWitness ==
    /\ calls = <<"tts", "retime", "pad", "probe", "mix", "resize", "encode">>
    /\ req.bgm
    /\ audio.final = "tts_mixed.wav"

\* the mix has been written and is the final audio
Mixed == audio.final = "tts_mixed.wav"

WorkspaceRemovedBeforeSettle ==
    (pc = "settled" /\ work # "none") => RemovalAttempted

ResizeFailed == \E i \in 1..Len(tasks) : tasks[i] = "failed"

\* C16: when the resize of any one image fails the whole request fails: no
\* descriptor is written, the encoder is not invoked and no output video is
\* made, however many of the other images were resized.
ResizeFailureIsFatal ==
    ResizeFailed =>
        /\ lines = <<>>
        /\ ~Started("encode")
        /\ ~output.made
        /\ status # 200
        /\ pc = "settled" => error = "resize failed"

\* one of three resizes failed, the other two succeeded, the call rejected
ResizeFailureWitness ==
    /\ Len(tasks) = 3
    /\ Cardinality({i \in 1..3 : tasks[i] = "done"}) = 2
    /\ Cardinality({i \in 1..3 : tasks[i] = "failed"}) = 1
    /\ pc = "settled"
    /\ error = "resize failed"

\* how many times the external operation c has been started
Count(c) == Cardinality({i \in 1..Len(calls) : calls[i] = c})

StartedAtMostOnce ==
    /\ \A c \in {"tts", "retime", "pad", "probe", "mix", "encode"} : Count(c) <= 1
    /\ Count("resize") <= Len(localImages)

AbortTerminates ==
    /\ [][aborted => (calls' = calls /\ output' = output)]_vars
    /\ [] ((aborted /\ srvPc = "done") => (work = "removed" /\ srvWork = "removed"))
    /\ [] (aborted => status # 200)

\* ------------------------------------------------------------------------
\* Properties of the assembled output (Spec)
\* ------------------------------------------------------------------------

\* the frames the descriptor schedules at or after the end of the output
ScheduledAfterEnd ==
    {k \in 1..FrameCount : RatLeq(output.duration, ScheduledAt(k))}

\* the output lasts as long as the final audio, and the frames scheduled at
\* or after its end are not in it
CutToAudio ==
    /\ RatEq(output.duration, FinalAudioDuration)
    /\ output.shown \cap ScheduledAfterEnd = {}

StreamOnlyAfterSuccess ==
    /\ [] ((srvPc = "streaming" \/ status = 200) =>
              (pc = "settled" /\ error = "" /\ output.made))
    /\ [] ((srvPc = "done" /\ (error # "" \/ pc = "idle")) => status \in {400, 500})
    /\ [][srvPc' = "streaming" => (srvPc = "await" /\ status = 0 /\ error = "")]_vars
    /\ [][(status = 400 \/ status = 500) => (status' = status /\ srvPc' = "done")]_vars

\* the encoder failed after every other stage had succeeded: the client of
\* the upload endpoint got the 500 response and no byte of a video
StreamWitness ==
    /\ req.entry = "upload"
    /\ Started("encode")
    /\ error = "encode failed"
    /\ srvPc = "done"
    /\ status = 500

\* ------------------------------------------------------------------------
\* Properties of the order of the stages (Spec)
\* ------------------------------------------------------------------------

\* the per-slide duration has been computed
Allocated == durationPerSlide # Zero

AllRendered ==
    /\ Len(tasks) = Len(orderedImages)
    /\ \A i \in 1..Len(tasks) : tasks[i] = "done"
    /\ Len(resizedImages) = Len(tasks)

\* the file at finalAudioPath is complete
FinalAudioComplete ==
    /\ Started("probe")
    /\ RatEq(audio.duration, audio.padded)
    /\ IF req.bgm THEN Started("mix") /\ Mixed ELSE audio.final = "tts_padded.wav"

\* C21: within one request the timing allocation starts only after the probe
\* of the audio duration and the rendering of all frames have completed, the
\* descriptor is written only after the timing allocation, and the encoder
\* is started only after the descriptor is written and the final audio is
\* complete.
StagesFollowDependencies ==
    /\ Allocated => (Started("probe") /\ audio.duration # Zero /\ AllRendered)
    /\ Described => Allocated
    /\ Started("encode") => (Described /\ FinalAudioComplete)

\* three frames rendered, music mixed, the encoder started
StagesFollowWitness ==
    /\ Started("encode")
    /\ Len(tasks) = 3
    /\ AllRendered
    /\ req.bgm
    /\ Len(lines) = 6

WorkspacesNeverAlias ==
    \A r1, r2 \in WsRequests :
        r1 # r2 =>
            /\ WsPaths(r1) \cap WsPaths(r2) = {}
            /\ wsSrvDir[r1] # "" => wsSrvDir[r1] # wsSrvDir[r2]
            /\ wsPipeDir[r1] # "" => wsPipeDir[r1] # wsPipeDir[r2]

\* two requests are inside the pipeline at the same time
WorkspacesWitness ==
    /\ wsPhase[1] = "pipeline"
    /\ wsPhase[2] = "pipeline"
    /\ wsPipeDir[1] # wsPipeDir[2]

\* ------------------------------------------------------------------------
\* Properties of the numeric token (SpecToken)
\* ------------------------------------------------------------------------

\* the name after a leading prefix of k >= 2 digits and "-" is removed
StrippedName(base) ==
    LET ks == {k \in 2..(Len(base) - 1) :
                  /\ \A i \in 1..k : Ch(base, i) \in DigitSet
                  /\ Ch(base, k + 1) = "-"}
    IN  IF ks = {} THEN base
        ELSE LET k == CHOOSE k \in ks : TRUE
             IN  SubSeq(base, k + 2, Len(base))

\* the digit runs of s that cannot be extended: <<first, last>>
DigitRuns(s) ==
    {r \in (1..Len(s)) \X (1..Len(s)) :
        /\ r[1] <= r[2]
        /\ \A i \in r[1]..r[2] : Ch(s, i) \in DigitSet
        /\ (r[1] = 1 \/ Ch(s, r[1] - 1) \notin DigitSet)
        /\ (r[2] = Len(s) \/ Ch(s, r[2] + 1) \notin DigitSet)}

\* C24: the numeric token of a basename is the value of the longest digit
\* run of the name without its prefix (at least 2 digits and "-"), the
\* rightmost among the longest; it is absent exactly when that name has no
\* digit, so the digits of the prefix never contribute.
TokenIsLongestRightmostRun ==
    sortPc # "call" =>
        LET item == MakeItem(sortIn[1], 1)
            s == StrippedName(item.base)
            runs == DigitRuns(s)
        IN  /\ item.nameNoPrefix = s
            /\ item.hasNum <=> (\E i \in 1..Len(s) : Ch(s, i) \in DigitSet)
            /\ item.hasNum =>
                  \E r \in runs :
                      /\ item.num = parseInt(SubSeq(s, r[1], r[2]))
                      /\ \A q \in runs :
                            \/ q[2] - q[1] < r[2] - r[1]
                            \/ (q[2] - q[1] = r[2] - r[1] /\ q[1] <= r[1])

\* "00-1a0": the prefix 00- is removed and of the two one-digit runs of
\* "1a0" the right one, 0, is the token
TokenWitness ==
    /\ sortPc = "sorted"
    /\ sortIn = <<"00-1a0">>
    /\ MakeItem(sortIn[1], 1).hasNum
    /\ MakeItem(sortIn[1], 1).num = 0

\* ------------------------------------------------------------------------
\* Properties of the resize tasks and of the removal (Spec)
\* ------------------------------------------------------------------------

\* C25: once the removal of the work directory has started no operation of
\* the request is still writing beneath it: when one resize fails while
\* others are in flight the removal waits for them.
RemovalAfterWritesEnd ==
    (pc = "settled" /\ RemovalAttempted) =>
        \A i \in 1..Len(tasks) : tasks[i] # "running"

\* the image from which the frame at path p was rendered
FrameSource(p) == TaskSrc(CHOOSE i \in 1..Len(tasks) : TaskDest(i) = p)

\* C26: resizeImages returns the frame paths in the order of the ordered
\* images: the i-th path is the frame rendered from the i-th image and
\* carries the zero-padded index i (from 0), in whatever order the resize
\* tasks completed, and the paths are pairwise distinct.
FramesInImageOrder ==
    (Allocated /\ FrameCount < 10) =>
        /\ FrameCount = Len(orderedImages)
        /\ \A i \in 1..FrameCount :
              /\ resizedImages[i] =
                    pathJoin(framesDir, "slide00" \o ToStr(i - 1) \o ".jpg")
              /\ FrameSource(resizedImages[i]) = orderedImages[i]
        /\ \A i, j \in 1..FrameCount : i # j => resizedImages[i] # resizedImages[j]

\* three frames of images that smartSortImages has reordered
FramesInOrderWitness ==
    /\ Allocated
    /\ FrameCount = 3
    /\ orderedImages # localImages
    /\ resizedImages[3] = "/tmp/slideshow-Q7w2/frames/slide002.jpg"

\* C27: when the removal of the work directory fails the failure is only
\* logged: the call delivers to its caller what it would have delivered had
\* the removal succeeded, success or the error of the pipeline.
RemovalFailureOnlyLogged ==
    /\ [][pc = "finally" => (error' = error /\ output' = output)]_vars
    /\ [] ((pc = "settled" /\ work = "removal failed") => (error = "" <=> output.made))
    /\ [] ((srvPc = "done" /\ work = "removal failed") =>
              status = IF error = "" THEN 200 ELSE 500)

\* the removal failed after a successful encode: the call resolved
RemovalFailureWitness ==
    /\ pc = "settled"
    /\ work = "removal failed"
    /\ error = ""
    /\ output.made

\* C28: every HTTP request that creates a handler work directory removes
\* it, on a failure before the error response is sent and on success when
\* the response stream closes; a request rejected by validation never
\* creates one.
ServerWorkDirRemoved ==
    /\ status = 400 => srvWork = "none"
    /\ status = 500 => srvWork = "removed"
    /\ (srvPc = "done" /\ srvWork # "none") => srvWork = "removed"

\* C29: for exactly one frame the descriptor is that frame's file entry
\* twice and no duration entry.
SoleFrameTwiceNoDuration ==
    (Described /\ FrameCount = 1) =>
        /\ lines = <<FileLine(resizedImages[1]), FileLine(resizedImages[1])>>
        /\ DurationEntries = <<>>

\* the descriptor of a single frame has been written
SoleFrameWitness ==
    /\ pc = "encode"
    /\ FrameCount = 1
    /\ Len(lines) = 2
    /\ lines[1].path = slidePath(0)

\* what the work directory holds at path p, "" when nothing
Holds(p) ==
    IF \E e \in upDisk : e.path = p
    THEN (CHOOSE e \in upDisk : e.path = p).data
    ELSE ""

\* C30: within one upload request the path of the stored background music
\* differs from the path of every stored image, so after the music is
\* stored every image path still holds its image.
BgmPathDistinct ==
    (upPc = "stored" /\ upBgm # "") =>
        \A i \in 1..Len(upImages) :
            /\ upImages[i] # upBgm
            /\ Holds(upImages[i]) = ImageBuffer(i - 1)

====
